---- MODULE Spec2Model ----
(***************************************************************************)
(* State-machine model of the transaction API of ish-server               *)
(* (src/src/index.ts): POST /ai, GET /transactions, PUT /transactions/:id, *)
(* DELETE /transactions/:id over the "transaction" table.                  *)
(*                                                                         *)
(* Text is modelled as a sequence of one-character strings, JavaScript     *)
(* values as tagged records, instants as whole seconds since the epoch     *)
(* (the unit the timestamp columns are stored in).                         *)
(***************************************************************************)
EXTENDS Integers, Sequences, FiniteSets, TLC

VARIABLES store, nextId, now, reqs, deleted

vars == <<store, nextId, now, reqs, deleted>>

(***************************************************************************)
(* Bounds of the model.                                                    *)
(***************************************************************************)
\* number of transaction ids crypto.randomUUID() hands out in a run
MaxIds == 1
\* number of seconds the clock advances in a run
MaxTicks == 1
\* rows beyond the list limit in the large stores of SpecCap
CapExtra == 2

(***************************************************************************)
(* JavaScript values.  t is the tag; s the text of a string; m and e the   *)
(* decimal m * 10^-e of a number (e fractional digits, no trailing zero).  *)
(***************************************************************************)
Undefined == [t |-> "undefined", s |-> <<>>, m |-> 0, e |-> 0]

Null == [t |-> "null", s |-> <<>>, m |-> 0, e |-> 0]

NaN == [t |-> "nan", s |-> <<>>, m |-> 0, e |-> 0]

Str(cs) == [t |-> "string", s |-> cs, m |-> 0, e |-> 0]

RECURSIVE Normalize(_, _)
\* the decimal m * 10^-e without trailing fractional zeros
Normalize(m, e) ==
    IF e > 0 /\ m % 10 = 0 THEN Normalize(m \div 10, e - 1)
    ELSE [t |-> "number", s |-> <<>>, m |-> m, e |-> e]

Num(m, e) == Normalize(m, e)

\* x == null || x === undefined, the test of ?. and ??
Nullish(v) == v.t \in {"undefined", "null"}

\* !v
Falsy(v) ==
    \/ v.t \in {"undefined", "null", "nan"}
    \/ v.t = "string" /\ v.s = <<>>
    \/ v.t = "number" /\ v.m = 0

Digits == <<"0", "1", "2", "3", "4", "5", "6", "7", "8", "9">>

IsDigit(c) == \E i \in 1..10 : Digits[i] = c

DigitVal(c) == (CHOOSE i \in 1..10 : Digits[i] = c) - 1

Lower == <<"a", "b", "c", "d", "e", "f", "g", "h", "i", "j", "k", "l", "m",
           "n", "o", "p", "q", "r", "s", "t", "u", "v", "w", "x", "y", "z">>

Upper == <<"A", "B", "C", "D", "E", "F", "G", "H", "I", "J", "K", "L", "M",
           "N", "O", "P", "Q", "R", "S", "T", "U", "V", "W", "X", "Y", "Z">>

\* String.prototype.toUpperCase
ToUpperCase(cs) ==
    [i \in 1..Len(cs) |->
        IF \E k \in 1..26 : Lower[k] = cs[i]
        THEN Upper[CHOOSE k \in 1..26 : Lower[k] = cs[i]]
        ELSE cs[i]]

RECURSIVE TrimStart(_)
TrimStart(cs) ==
    IF cs # <<>> /\ Head(cs) = " " THEN TrimStart(Tail(cs)) ELSE cs

RECURSIVE TrimEnd(_)
TrimEnd(cs) ==
    IF cs # <<>> /\ cs[Len(cs)] = " "
    THEN TrimEnd(SubSeq(cs, 1, Len(cs) - 1)) ELSE cs

\* String.prototype.trim
Trim(cs) == TrimEnd(TrimStart(cs))

RECURSIVE DigitsValue(_)
\* the natural number a sequence of digit characters denotes
DigitsValue(cs) ==
    IF cs = <<>> THEN 0
    ELSE 10 * DigitsValue(SubSeq(cs, 1, Len(cs) - 1)) + DigitVal(cs[Len(cs)])

AllDigits(cs) == \A i \in 1..Len(cs) : IsDigit(cs[i])

\* position of the first "." of cs, 0 when there is none
DotAt(cs) ==
    IF \E i \in 1..Len(cs) : cs[i] = "."
    THEN CHOOSE i \in 1..Len(cs) :
            cs[i] = "." /\ \A j \in 1..(i - 1) : cs[j] # "."
    ELSE 0

\* an unsigned decimal literal: digits, optionally "." and digits
UnsignedToNumber(cs) ==
    LET d == DotAt(cs)
        ip == IF d = 0 THEN cs ELSE SubSeq(cs, 1, d - 1)
        fp == IF d = 0 THEN <<>> ELSE SubSeq(cs, d + 1, Len(cs))
    IN  IF AllDigits(ip) /\ AllDigits(fp) /\ Len(ip) + Len(fp) > 0
        THEN Num(DigitsValue(ip \o fp), Len(fp))
        ELSE NaN

\* Number(string): StringToNumber on the trimmed text; "" is 0
StringToNumber(cs) ==
    LET x == Trim(cs)
    IN  IF x = <<>> THEN Num(0, 0)
        ELSE IF Head(x) = "-"
        THEN LET u == UnsignedToNumber(Tail(x))
             IN  IF u.t = "nan" THEN NaN ELSE Num(0 - u.m, u.e)
        ELSE UnsignedToNumber(x)

\* Number(v)
ToNumber(v) ==
    CASE v.t = "number" -> v
      [] v.t = "string" -> StringToNumber(v.s)
      [] v.t = "null" -> Num(0, 0)
      [] OTHER -> NaN

RECURSIVE NatToDigits(_)
NatToDigits(n) ==
    IF n < 10 THEN <<Digits[n + 1]>>
    ELSE NatToDigits(n \div 10) \o <<Digits[(n % 10) + 1]>>

RECURSIVE PadLeft(_, _)
PadLeft(cs, n) == IF Len(cs) >= n THEN cs ELSE PadLeft(<<"0">> \o cs, n)

\* Number.prototype.toString of a decimal in plain (non-exponent) range
NumberToString(v) ==
    IF v.t = "nan" THEN <<"N", "a", "N">>
    ELSE LET a == IF v.m < 0 THEN 0 - v.m ELSE v.m
             ds == PadLeft(NatToDigits(a), v.e + 1)
             ip == SubSeq(ds, 1, Len(ds) - v.e)
             fp == SubSeq(ds, Len(ds) - v.e + 1, Len(ds))
             body == IF v.e = 0 THEN ip ELSE ip \o <<".">> \o fp
         IN  IF v.m < 0 THEN <<"-">> \o body ELSE body

\* v.toString() for the values a JSON body holds (never called on nullish)
ToStringJS(v) == IF v.t = "string" THEN v.s ELSE NumberToString(v)

(***************************************************************************)
(* Dates.  A Date is [k, sec]: k = "date" with sec the whole seconds of    *)
(* its time value, k = "invalid" for an Invalid Date (time value NaN),     *)
(* k = "null" where the code holds null instead of a Date.                 *)
(***************************************************************************)
NullDate == [k |-> "null", sec |-> 0]

InvalidDate == [k |-> "invalid", sec |-> 0]

DateOf(sec) == [k |-> "date", sec |-> sec]

SecPerDay == 24 * 60 * 60

\* days from 1970-01-01 to January 1st of year y (ECMAScript DayFromYear)
DayFromYear(y) ==
    365 * (y - 1970) + ((y - 1969) \div 4) - ((y - 1901) \div 100)
        + ((y - 1601) \div 400)

IsLeap(y) == (y % 4 = 0 /\ y % 100 # 0) \/ y % 400 = 0

\* days before the first day of month index mi (0 = January) in a common year
MonthStart == <<0, 31, 59, 90, 120, 151, 181, 212, 243, 273, 304, 334>>

\* Date.UTC(year, monthIndex, day, 0, 0, 0, 0), in seconds: out-of-range
\* months and days carry over, years 0..99 mean 1900..1999
DateUTC(year, monthIndex, day) ==
    LET y0 == IF year >= 0 /\ year <= 99 THEN 1900 + year ELSE year
        y == y0 + (monthIndex \div 12)
        mi == monthIndex % 12
        leapDay == IF mi >= 2 /\ IsLeap(y) THEN 1 ELSE 0
    IN  (DayFromYear(y) + MonthStart[mi + 1] + leapDay + (day - 1)) * SecPerDay

\* 10^n
RECURSIVE Pow10(_)
Pow10(n) == IF n = 0 THEN 1 ELSE 10 * Pow10(n - 1)

\* the integer part of a number (ToIntegerOrInfinity)
ToInteger(v) ==
    IF v.m >= 0 THEN v.m \div Pow10(v.e) ELSE 0 - ((0 - v.m) \div Pow10(v.e))

\* the two-digit or four-digit field cs[a..b] of a date-time text
Field(cs, a, b) == DigitsValue(SubSeq(cs, a, b))

\* new Date(text) for a text of the form YYYY-MM-DDTHH:MM:SS[.mmm]Z; any
\* other text of the model's inputs is no date and gives an Invalid Date
ParseDate(cs) ==
    IF /\ Len(cs) \in {20, 24}
       /\ cs[5] = "-" /\ cs[8] = "-" /\ cs[11] = "T"
       /\ cs[14] = ":" /\ cs[17] = ":" /\ cs[Len(cs)] = "Z"
       /\ AllDigits(SubSeq(cs, 1, 4)) /\ AllDigits(SubSeq(cs, 6, 7))
       /\ AllDigits(SubSeq(cs, 9, 10)) /\ AllDigits(SubSeq(cs, 12, 13))
       /\ AllDigits(SubSeq(cs, 15, 16)) /\ AllDigits(SubSeq(cs, 18, 19))
       /\ (Len(cs) = 24 => cs[20] = "." /\ AllDigits(SubSeq(cs, 21, 23)))
       /\ Field(cs, 6, 7) \in 1..12 /\ Field(cs, 9, 10) \in 1..31
       /\ Field(cs, 12, 13) \in 0..23 /\ Field(cs, 15, 16) \in 0..59
       /\ Field(cs, 18, 19) \in 0..59
    THEN DateOf(DateUTC(Field(cs, 1, 4), Field(cs, 6, 7) - 1, Field(cs, 9, 10))
                + Field(cs, 12, 13) * 3600 + Field(cs, 15, 16) * 60
                + Field(cs, 18, 19))
    ELSE InvalidDate

\* new Date(v) for a truthy JSON value v
NewDate(v) == IF v.t = "string" THEN ParseDate(v.s) ELSE InvalidDate

\* position of the first "-" of cs, 0 when there is none
DashAt(cs) ==
    IF \E i \in 1..Len(cs) : cs[i] = "-"
    THEN CHOOSE i \in 1..Len(cs) :
            cs[i] = "-" /\ \A j \in 1..(i - 1) : cs[j] # "-"
    ELSE 0

RECURSIVE SplitDash(_)
\* cs.split("-")
SplitDash(cs) ==
    LET d == DashAt(cs)
    IN  IF d = 0 THEN <<cs>>
        ELSE <<SubSeq(cs, 1, d - 1)>> \o SplitDash(SubSeq(cs, d + 1, Len(cs)))

(***************************************************************************)
(* Identity gateway: the credentials a request carries resolve to a user   *)
(* or to none.                                                             *)
(***************************************************************************)
NoUser == "none"

Creds == {"tok1", "tok2", "bad"}

\* auth.api.getSession({headers})?.user
GetSession(cred) ==
    CASE cred = "tok1" -> "u1"
      [] cred = "tok2" -> "u2"
      [] OTHER -> NoUser

\* the connections whose requests are in flight together
Slots == {"s1", "s2"}

(***************************************************************************)
(* The transaction table.  store maps the id of each stored row to the     *)
(* row; ids stand for the UUIDs crypto.randomUUID() returns, in the order  *)
(* they were generated.                                                    *)
(***************************************************************************)
\* an id no row ever had
NeverId == 0

NoRow ==
    [id |-> 0, userId |-> NoUser, title |-> <<>>, amount |-> <<>>,
     currency |-> <<>>, type |-> <<>>, category |-> Null, note |-> Null,
     occurredAt |-> 0, createdAt |-> 0, updatedAt |-> 0]

\* the rows of the table
Rows == {store[i] : i \in DOMAIN store}

\* LIMIT of the list query
ListLimit == 50

\* ORDER BY occurred_at without DESC: the earlier row first
BeforeAscending(a, b, tb) ==
    \/ a.occurredAt < b.occurredAt
    \/ /\ a.occurredAt = b.occurredAt
       /\ IF tb = "asc" THEN a.id <= b.id ELSE a.id >= b.id

\* ORDER BY occurred_at DESC: row a comes before row b.  SQL leaves the
\* order of rows with equal keys open; tb is the direction in which the
\* engine meets them (by insertion order, forwards or backwards)
Before(a, b, tb) ==
    \/ a.occurredAt > b.occurredAt
    \/ /\ a.occurredAt = b.occurredAt
       /\ IF tb = "asc" THEN a.id <= b.id ELSE a.id >= b.id

RECURSIVE TakeOrdered(_, _, _)
\* the first n rows of the set S in the order Before
TakeOrdered(S, n, tb) ==
    IF S = {} \/ n = 0 THEN <<>>
    ELSE LET x == CHOOSE x \in S : \A y \in S : Before(x, y, tb)
         IN  <<x>> \o TakeOrdered(S \ {x}, n - 1, tb)

NoFilter == [on |-> FALSE, lo |-> 0, hi |-> 0]

\* the filter with lte in place of lt: the day's end counts as the day
MatchesInclusive(row, user, filt) ==
    /\ row.userId = user
    /\ filt.on => (row.occurredAt >= filt.lo /\ row.occurredAt <= filt.hi)

\* and(eq(userId, user), gte(occurredAt, dayStart), lt(occurredAt, dayEnd))
Matches(row, user, filt) ==
    /\ row.userId = user
    /\ filt.on => (row.occurredAt >= filt.lo /\ row.occurredAt < filt.hi)

\* select().from(transaction).where(...).orderBy(desc(occurredAt)).limit(50)
SelectTransactions(user, filt, tb) ==
    TakeOrdered({r \in Rows : Matches(r, user, filt)}, ListLimit, tb)

\* the where clause without eq(userId, user)
OwnedByAnyone(id, user) == {r \in Rows : r.id = id}

\* the rows where(and(eq(id, id), eq(userId, user))) selects
Owned(id, user) == {r \in Rows : r.id = id /\ r.userId = user}

(***************************************************************************)
(* Requests.  reqs[s] is the request connection s is serving: its inputs,  *)
(* how far its handler has run (pc), and its response once pc = "done".    *)
(***************************************************************************)
NoBody ==
    [title |-> Undefined, amount |-> Undefined, currency |-> Undefined,
     type |-> Undefined, category |-> Undefined, note |-> Undefined,
     occurredAt |-> Undefined]

NoQuery == [date |-> Undefined, tzOffset |-> Undefined]

NoPayload ==
    [title |-> Undefined, amount |-> Undefined, currency |-> Undefined,
     type |-> Undefined, category |-> Null, note |-> Null,
     occurredAt |-> NullDate]

Idle ==
    [pc |-> "idle", kind |-> "none", cred |-> "bad", user |-> NoUser,
     id |-> 0, text |-> Undefined, body |-> NoBody, query |-> NoQuery,
     payload |-> NoPayload, filt |-> NoFilter, row |-> NoRow,
     calls |-> 0, stmts |-> 0, status |-> 0, error |-> "", rows |-> <<>>]

\* a connection takes a new request when it is serving none
Free(s) == reqs[s].pc \in {"idle", "done"}

\* c.json(..., status): the handler returns
Respond(r, status, error, rows) ==
    [r EXCEPT !.pc = "done", !.status = status, !.error = error, !.rows = rows]

\* a handler throws: Hono answers 500
Throw(r) == Respond(r, 500, "Internal Server Error", <<>>)

(***************************************************************************)
(* POST /ai                                                                *)
(***************************************************************************)
TxtUSD == <<"U", "S", "D">>

\* z.object({...}): the schema the extracted object must conform to
Conforms(o) ==
    /\ o.title.t = "string" /\ Len(o.title.s) >= 1
    /\ o.amount.t = "number"
    /\ o.currency.t = "undefined" \/ (o.currency.t = "string" /\ Len(o.currency.s) = 3)
    /\ o.type.t = "string"
    /\ o.type.s \in {<<"i", "n", "c", "o", "m", "e">>,
                     <<"e", "x", "p", "e", "n", "s", "e">>}
    /\ o.category.t = "string"
    /\ o.note.t \in {"string", "undefined"}
    /\ o.occurredAt.t \in {"string", "undefined"}

\* the parsed object: currency .default("USD")
WithDefaults(o) ==
    [o EXCEPT !.currency = IF o.currency.t = "undefined" THEN Str(TxtUSD) ELSE @]

\* what the generation service sends back: nothing usable, or an object
NoObject == [ok |-> FALSE, object |-> NoBody]

Generated(o) == [ok |-> TRUE, object |-> o]

\* generateObject without the schema: whatever object came back
GenerateObjectUnchecked(reply) ==
    IF reply.ok THEN Generated(WithDefaults(reply.object)) ELSE NoObject

\* generateObject({model, schema, prompt}): the parsed object, or it throws
GenerateObject(reply) ==
    IF reply.ok /\ Conforms(reply.object)
    THEN Generated(WithDefaults(reply.object))
    ELSE NoObject

\* result.object.occurredAt ? new Date(result.object.occurredAt) : new Date()
ExtractedDate(o) ==
    IF Falsy(o.occurredAt) THEN DateOf(now) ELSE NewDate(o.occurredAt)

\* .values({...}) of the insert, with the column defaults of the schema
InsertValues(user, o) ==
    [id |-> nextId, userId |-> user, title |-> o.title.s,
     amount |-> NumberToString(o.amount), currency |-> o.currency.s,
     type |-> o.type.s, category |-> o.category,
     note |-> IF Nullish(o.note) THEN Null ELSE o.note,
     occurredAt |-> ExtractedDate(o).sec, createdAt |-> now, updatedAt |-> now]

\* session check, body parsing, and the call of generateObject
PostAiStart(s, cred, text) ==
    LET user == GetSession(cred)
        r == [Idle EXCEPT !.kind = "POST", !.cred = cred, !.user = user,
                          !.text = text]
        t == IF Nullish(text) THEN <<>> ELSE Trim(ToStringJS(text))
    IN  /\ Free(s)
        /\ reqs' = [reqs EXCEPT ![s] =
                IF user = NoUser THEN Respond(r, 401, "Unauthorized", <<>>)
                ELSE IF t = <<>> THEN Respond(r, 400, "Missing text", <<>>)
                ELSE [r EXCEPT !.pc = "extract", !.calls = 1]]
        /\ UNCHANGED <<store, nextId, now, deleted>>

\* generateObject settles; on success the values of the insert are built
PostAiExtract(s, reply) ==
    LET r == reqs[s]
        res == GenerateObject(reply)
    IN  /\ r.pc = "extract"
        /\ IF ~res.ok
           THEN /\ reqs' = [reqs EXCEPT ![s] = Throw(r)]
                /\ UNCHANGED nextId
           ELSE /\ nextId <= MaxIds
                /\ reqs' = [reqs EXCEPT ![s] =
                        [r EXCEPT !.pc = "insert", !.body = res.object,
                                  !.payload.occurredAt = ExtractedDate(res.object),
                                  !.row = InsertValues(r.user, res.object)]]
                /\ nextId' = nextId + 1
        /\ UNCHANGED <<store, now, deleted>>

\* db.insert(transaction).values(...).returning() runs: occurred_at is
\* NOT NULL, and an Invalid Date is bound as NULL
PostAiInsert(s) ==
    LET r == reqs[s]
    IN  /\ r.pc = "insert"
        /\ IF r.payload.occurredAt.k = "invalid"
           THEN /\ reqs' = [reqs EXCEPT ![s] = Throw([r EXCEPT !.stmts = 1])]
                /\ UNCHANGED store
           ELSE /\ store' = (r.row.id :> r.row) @@ store
                /\ reqs' = [reqs EXCEPT ![s] =
                        Respond([r EXCEPT !.stmts = 1], 200, "", <<r.row>>)]
        /\ UNCHANGED <<nextId, now, deleted>>

(***************************************************************************)
(* GET /transactions                                                       *)
(***************************************************************************)
\* the i-th part of dateParam.split("-").map(Number), undefined past the end
DatePart(parts, i) ==
    IF i <= Len(parts) THEN StringToNumber(parts[i]) ELSE Undefined

\* !x || Number.isNaN(x) for a part of the date
BadPart(v) == Falsy(v) \/ v.t = "nan"

\* the filter of the list: none, a day's range, or "invalid"
DayFilter(query) ==
    IF Falsy(query.date) THEN [ok |-> TRUE, filt |-> NoFilter]
    ELSE LET parts == SplitDash(ToStringJS(query.date))
             year == DatePart(parts, 1)
             month == DatePart(parts, 2)
             day == DatePart(parts, 3)
             tzOffset == ToNumber(query.tzOffset)
         IN  IF BadPart(year) \/ BadPart(month) \/ BadPart(day) \/ tzOffset.t = "nan"
             THEN [ok |-> FALSE, filt |-> NoFilter]
             ELSE LET utcStart ==
                          DateUTC(ToInteger(year),
                                  ToInteger([month EXCEPT !.m = @ - Pow10(month.e)]),
                                  ToInteger(day))
                            + ((tzOffset.m * 60) \div Pow10(tzOffset.e))
                  IN  [ok |-> TRUE,
                       filt |-> [on |-> TRUE, lo |-> utcStart,
                                 hi |-> utcStart + SecPerDay]]

\* session check and the parsing of date and tzOffset
GetStart(s, cred, query) ==
    LET user == GetSession(cred)
        r == [Idle EXCEPT !.kind = "GET", !.cred = cred, !.user = user,
                          !.query = query]
        f == DayFilter(query)
    IN  /\ Free(s)
        /\ reqs' = [reqs EXCEPT ![s] =
                IF user = NoUser THEN Respond(r, 401, "Unauthorized", <<>>)
                ELSE IF ~f.ok THEN Respond(r, 400, "Invalid date or tzOffset", <<>>)
                ELSE [r EXCEPT !.pc = "db", !.filt = f.filt]]
        /\ UNCHANGED <<store, nextId, now, deleted>>

\* the select runs
GetDb(s, tb) ==
    LET r == reqs[s]
    IN  /\ r.pc = "db" /\ r.kind = "GET"
        /\ reqs' = [reqs EXCEPT ![s] =
                Respond([r EXCEPT !.stmts = 1], 200, "",
                        SelectTransactions(r.user, r.filt, tb))]
        /\ UNCHANGED <<store, nextId, now, deleted>>

(***************************************************************************)
(* DELETE /transactions/:id                                                *)
(***************************************************************************)
\* session check; the route matches only a non-empty id
DeleteStart(s, cred, id) ==
    LET user == GetSession(cred)
        r == [Idle EXCEPT !.kind = "DELETE", !.cred = cred, !.user = user,
                          !.id = id]
    IN  /\ Free(s)
        /\ reqs' = [reqs EXCEPT ![s] =
                IF user = NoUser THEN Respond(r, 401, "Unauthorized", <<>>)
                ELSE [r EXCEPT !.pc = "db"]]
        /\ UNCHANGED <<store, nextId, now, deleted>>

\* a delete that reports the row and leaves it in the table
DeleteWhereKeeps(id, user) == store

\* the rows left by delete(transaction).where(and(eq(id), eq(userId)))
DeleteWhere(id, user) ==
    [i \in {j \in DOMAIN store : store[j] \notin Owned(id, user)} |-> store[i]]

\* the delete runs
DeleteDb(s) ==
    LET r == reqs[s]
        gone == Owned(r.id, r.user)
    IN  /\ r.pc = "db" /\ r.kind = "DELETE"
        /\ store' = DeleteWhere(r.id, r.user)
        /\ reqs' = [reqs EXCEPT ![s] =
                IF gone = {}
                THEN Respond([r EXCEPT !.stmts = 1], 404, "Not found", <<>>)
                ELSE Respond([r EXCEPT !.stmts = 1], 200, "", <<>>)]
        /\ deleted' = IF gone = {} THEN deleted ELSE deleted \cup {r.id}
        /\ UNCHANGED <<nextId, now>>

(***************************************************************************)
(* PUT /transactions/:id                                                   *)
(***************************************************************************)
\* body?.f?.toString().trim()
Trimmed(v) == IF Nullish(v) THEN Undefined ELSE Str(Trim(ToStringJS(v)))

\* body?.f?.toString().trim() || null
TrimmedOrNull(v) == IF Falsy(Trimmed(v)) THEN Null ELSE Trimmed(v)

\* const payload = {...}
Payload(body) ==
    [title |-> Trimmed(body.title),
     amount |-> body.amount,
     currency |-> IF Nullish(body.currency) THEN Undefined
                  ELSE Str(ToUpperCase(Trimmed(body.currency).s)),
     type |-> body.type,
     category |-> TrimmedOrNull(body.category),
     note |-> TrimmedOrNull(body.note),
     occurredAt |-> IF Falsy(body.occurredAt) THEN NullDate
                    ELSE NewDate(body.occurredAt)]

\* the validation without the test of the title
InvalidPayloadNoTitle(p) ==
    \/ p.amount.t = "undefined"
    \/ Falsy(p.currency)
    \/ Falsy(p.type)

\* !payload.title || payload.amount === undefined || !payload.currency || !payload.type
InvalidPayload(p) ==
    \/ Falsy(p.title)
    \/ p.amount.t = "undefined"
    \/ Falsy(p.currency)
    \/ Falsy(p.type)

\* .set({...}): the columns the update writes; occurredAt only when the
\* payload holds a date (undefined leaves the column alone)
UpdateSet(row, p) ==
    [row EXCEPT !.title = p.title.s,
                !.amount = NumberToString(ToNumber(p.amount)),
                !.currency = p.currency.s,
                !.type = ToStringJS(p.type),
                !.category = p.category,
                !.note = p.note,
                !.occurredAt = IF p.occurredAt.k = "null" THEN @
                               ELSE p.occurredAt.sec]

\* the handler with the validation moved before the session check
PutStartValidatesFirst(s, cred, id, body) ==
    LET user == GetSession(cred)
        r == [Idle EXCEPT !.kind = "PUT", !.cred = cred, !.user = user,
                          !.id = id, !.body = body]
        p == Payload(body)
    IN  /\ Free(s)
        /\ reqs' = [reqs EXCEPT ![s] =
                IF InvalidPayload(p) THEN Respond(r, 400, "Invalid payload", <<>>)
                ELSE IF user = NoUser THEN Respond(r, 401, "Unauthorized", <<>>)
                ELSE [r EXCEPT !.pc = "db", !.payload = p]]
        /\ UNCHANGED <<store, nextId, now, deleted>>

\* session check, payload building and validation
PutStart(s, cred, id, body) ==
    LET user == GetSession(cred)
        r == [Idle EXCEPT !.kind = "PUT", !.cred = cred, !.user = user,
                          !.id = id, !.body = body]
        p == Payload(body)
    IN  /\ Free(s)
        /\ reqs' = [reqs EXCEPT ![s] =
                IF user = NoUser THEN Respond(r, 401, "Unauthorized", <<>>)
                ELSE IF InvalidPayload(p) THEN Respond(r, 400, "Invalid payload", <<>>)
                ELSE [r EXCEPT !.pc = "db", !.payload = p]]
        /\ UNCHANGED <<store, nextId, now, deleted>>

\* update(transaction).set(...).where(and(eq(id), eq(userId))).returning()
\* runs: occurred_at is NOT NULL, and an Invalid Date is bound as NULL, so
\* the statement fails when it has a row to write
PutDb(s) ==
    LET r == reqs[s]
        hit == Owned(r.id, r.user)
    IN  /\ r.pc = "db" /\ r.kind = "PUT"
        /\ IF hit = {}
           THEN /\ reqs' = [reqs EXCEPT ![s] =
                        Respond([r EXCEPT !.stmts = 1], 404, "Not found", <<>>)]
                /\ UNCHANGED store
           ELSE IF r.payload.occurredAt.k = "invalid"
           THEN /\ reqs' = [reqs EXCEPT ![s] = Throw([r EXCEPT !.stmts = 1])]
                /\ UNCHANGED store
           ELSE /\ store' = [store EXCEPT ![r.id] = UpdateSet(@, r.payload)]
                /\ reqs' = [reqs EXCEPT ![s] =
                        Respond([r EXCEPT !.stmts = 1], 200, "",
                                <<UpdateSet(store[r.id], r.payload)>>)]
        /\ UNCHANGED <<nextId, now, deleted>>

(***************************************************************************)
(* The clock.                                                              *)
(***************************************************************************)
\* 2024-03-09T18:59:59Z, one second before the day of date=2024-03-10 with
\* tzOffset=-300 begins
ClockStart == DateUTC(2024, 2, 9) + 19 * 3600 - 1

\* a second passes
Tick ==
    /\ now < ClockStart + MaxTicks
    /\ now' = now + 1
    /\ UNCHANGED <<store, nextId, reqs, deleted>>

(***************************************************************************)
(* The inputs the requests of the model carry.                             *)
(***************************************************************************)
TwoDigits(n) == PadLeft(NatToDigits(n), 2)

\* the text YYYY-MM-DD
DateText(y, mo, d) ==
    NatToDigits(y) \o <<"-">> \o TwoDigits(mo) \o <<"-">> \o TwoDigits(d)

\* the text YYYY-MM-DDTHH:00:00Z
IsoText(y, mo, d, h) ==
    DateText(y, mo, d) \o <<"T">> \o TwoDigits(h)
        \o <<":", "0", "0", ":", "0", "0", "Z">>

TxtExpense == <<"e", "x", "p", "e", "n", "s", "e">>

TxtIncome == <<"i", "n", "c", "o", "m", "e">>

TxtTransfer == <<"t", "r", "a", "n", "s", "f", "e", "r">>

TxtEUR == <<"E", "U", "R">>

TxtFood == <<"f", "o", "o", "d">>

TxtSoon == <<"s", "o", "o", "n">>

\* the amount text "12.50"
Txt1250 == <<"1", "2", ".", "5", "0">>

\* body.text of POST /ai
Texts == {Undefined, Str(<<" ", " ">>), Str(<<"l", "u", "n", "c", "h">>)}

ObjLunch ==
    [title |-> Str(<<"L", "u", "n", "c", "h">>), amount |-> Num(1250, 2),
     currency |-> Undefined, type |-> Str(TxtExpense), category |-> Str(TxtFood),
     note |-> Undefined, occurredAt |-> Undefined]

ObjPay ==
    [title |-> Str(<<"P", "a", "y">>), amount |-> Num(7, 0),
     currency |-> Str(TxtEUR), type |-> Str(TxtIncome), category |-> Str(<<>>),
     note |-> Undefined, occurredAt |-> Str(IsoText(2024, 3, 10, 5))]

\* what generateObject may be sent back by the generation service
Replies ==
    {NoObject, Generated(ObjLunch), Generated(ObjPay),
     Generated([ObjLunch EXCEPT !.type = Str(TxtTransfer)]),
     Generated([ObjLunch EXCEPT !.occurredAt = Str(TxtSoon)])}

BodyRent ==
    [title |-> Str(<<" ", "R", "e", "n", "t", " ">>), amount |-> Str(Txt1250),
     currency |-> Str(TxtUSD), type |-> Str(TxtExpense),
     category |-> Str(<<" ", " ">>), note |-> Undefined,
     occurredAt |-> Undefined]

BodyGift ==
    [title |-> Str(<<"G", "i", "f", "t">>), amount |-> Num(7, 0),
     currency |-> Str(<<"e", "u", "r">>), type |-> Str(TxtTransfer),
     category |-> Str(TxtFood), note |-> Undefined,
     occurredAt |-> Str(IsoText(2024, 3, 10, 19))]

\* the JSON bodies of PUT /transactions/:id
Bodies ==
    {BodyRent, BodyGift,
     [BodyRent EXCEPT !.title = Undefined],
     [BodyRent EXCEPT !.title = Str(<<" ", " ">>)],
     [BodyRent EXCEPT !.amount = Undefined],
     [BodyRent EXCEPT !.currency = Undefined],
     [BodyRent EXCEPT !.currency = Str(<<" ">>)],
     [BodyRent EXCEPT !.type = Undefined],
     [BodyRent EXCEPT !.occurredAt = Str(TxtSoon)]}

\* the query parameters of GET /transactions
Queries ==
    {NoQuery,
     [date |-> Str(DateText(2024, 3, 10)), tzOffset |-> Str(<<"-", "3", "0", "0">>)],
     [date |-> Str(DateText(2024, 3, 10)), tzOffset |-> Str(<<"3", "0", "0">>)],
     [date |-> Str(DateText(2024, 3, 10)), tzOffset |-> Undefined],
     [date |-> Str(<<"2", "0", "2", "4", "-", "0", "3">>), tzOffset |-> Str(<<"0">>)]}

\* the directions in which the engine meets rows with equal sort keys
TieBreaks == {"asc", "desc"}

(***************************************************************************)
(* The system: requests arrive on the connections and their steps          *)
(* interleave.                                                             *)
(***************************************************************************)
Init ==
    /\ store = <<>>
    /\ nextId = 1
    /\ now = ClockStart
    /\ reqs = [s \in Slots |-> Idle]
    /\ deleted = {}

\* the ids requests name: those of rows a response has shown, and one that
\* was never generated
RequestIds == DOMAIN store \cup deleted \cup {NeverId}

\* the steps of requests on the connections S carrying credentials of C,
\* texts of T, replies of R, queries of Q and bodies of B
Step(S, C, T, R, Q, B) ==
    \/ \E s \in S, c \in C, t \in T : PostAiStart(s, c, t)
    \/ \E s \in S, r \in R : PostAiExtract(s, r)
    \/ \E s \in S : PostAiInsert(s)
    \/ \E s \in S, c \in C, q \in Q : GetStart(s, c, q)
    \/ \E s \in S, tb \in TieBreaks : GetDb(s, tb)
    \/ \E s \in S, c \in C, i \in RequestIds : DeleteStart(s, c, i)
    \/ \E s \in S : DeleteDb(s)
    \/ \E s \in S, c \in C, i \in RequestIds, b \in B : PutStart(s, c, i, b)
    \/ \E s \in S : PutDb(s)

\* two connections served concurrently by signed-in users
Next ==
    Step(Slots, {"tok1", "tok2"}, {Str(<<"l", "u", "n", "c", "h">>)},
         {Generated(ObjLunch)}, {NoQuery},
         {BodyRent, [BodyRent EXCEPT !.occurredAt = Str(TxtSoon)]})

Spec == Init /\ [][Next]_vars

\* one connection, every input of the model
NextSeq ==
    Step({"s1"}, Creds, Texts, Replies,
         {NoQuery, [date |-> Str(DateText(2024, 3, 10)), tzOffset |-> Undefined]},
         Bodies)

SpecSeq == Init /\ [][NextSeq]_vars

\* one connection of one user while time passes
NextClock ==
    \/ Step({"s1"}, {"tok1"}, {Str(<<"l", "u", "n", "c", "h">>)},
            {Generated(ObjLunch), Generated(ObjPay)}, {NoQuery},
            {BodyRent, BodyGift})
    \/ Tick

SpecClock == Init /\ [][NextClock]_vars

(***************************************************************************)
(* Large tables: the list query over more rows than its limit.             *)
(***************************************************************************)
\* 2024-03-09T19:00:00Z and 2024-03-10T19:00:00Z
CapLo == ClockStart + 1

CapHi == CapLo + SecPerDay

\* how the event times of a large table lie: all different from just
\* before CapLo on, two values only, or three values around CapHi
Patterns == {"distinct", "ties", "upper"}

CapTime(i, pat) ==
    CASE pat = "distinct" -> CapLo - 3 + i
      [] pat = "ties" -> CapLo + (i % 2)
      [] OTHER -> CapHi - 2 + (i % 3)

\* a table of n rows, the first of user u2, the others of user u1
CapStore(n, pat) ==
    [i \in 1..n |->
        [id |-> i, userId |-> IF i = 1 THEN "u2" ELSE "u1",
         title |-> ObjLunch.title.s, amount |-> NumberToString(ObjLunch.amount),
         currency |-> TxtUSD, type |-> TxtExpense, category |-> Str(TxtFood),
         note |-> Null, occurredAt |-> CapTime(i, pat),
         createdAt |-> ClockStart, updatedAt |-> ClockStart]]

InitCap ==
    \E n \in (ListLimit - 1)..(ListLimit + 1 + CapExtra), pat \in Patterns :
        /\ store = CapStore(n, pat)
        /\ nextId = n + 1
        /\ now = ClockStart
        /\ reqs = [s \in Slots |-> Idle]
        /\ deleted = {}

\* lists and deletions on one connection
NextCap ==
    \/ \E c \in Creds, q \in Queries : GetStart("s1", c, q)
    \/ \E tb \in TieBreaks : GetDb("s1", tb)
    \/ \E c \in Creds, i \in RequestIds \cap (NeverId..MaxIds) : DeleteStart("s1", c, i)
    \/ DeleteDb("s1")

SpecCap == InitCap /\ [][NextCap]_vars

(***************************************************************************)
(* Properties.                                                             *)
(***************************************************************************)
\* connection s returns a response in this step
Returns(s) == reqs'[s] # reqs[s] /\ reqs'[s].pc = "done"

\* the set of rows a response carries
Returned(r) == {r.rows[k] : k \in 1..Len(r.rows)}

\* the body of a PUT lacks a required field: title or currency missing or
\* blank, amount or type missing
Lacks(b) ==
    \/ b.title.t = "undefined" \/ (b.title.t = "string" /\ Trim(b.title.s) = <<>>)
    \/ b.amount.t = "undefined"
    \/ b.currency.t = "undefined"
    \/ (b.currency.t = "string" /\ Trim(b.currency.s) = <<>>)
    \/ b.type.t = "undefined"

C5_InvalidPayloadRejected ==
    [][\A s \in Slots :
        (Returns(s) /\ reqs'[s].kind = "PUT" /\ reqs'[s].user # NoUser
            /\ Lacks(reqs'[s].body)) =>
                /\ reqs'[s].status = 400
                /\ reqs'[s].error = "Invalid payload"
                /\ reqs'[s].stmts = 0
                /\ store' = store]_vars

\* the owner's PUT of a stored row, without a title, was refused
C5_Witness ==
    \E s \in Slots :
        /\ reqs[s].pc = "done" /\ reqs[s].kind = "PUT" /\ reqs[s].status = 400
        /\ reqs[s].body.title = Undefined
        /\ reqs[s].id \in DOMAIN store
        /\ store[reqs[s].id].userId = reqs[s].user

\* C6: a request whose credentials resolve to no user returns 401
\* "Unauthorized" whatever else it carries, with no call of the extraction
\* service and no statement on the table.
C6_UnauthorizedFirst ==
    [][\A s \in Slots :
        /\ reqs'[s].cred = "bad" => reqs'[s].pc \in {"idle", "done"}
        /\ (Returns(s) /\ reqs'[s].cred = "bad") =>
                /\ reqs'[s].status = 401
                /\ reqs'[s].error = "Unauthorized"
                /\ reqs'[s].calls = 0
                /\ reqs'[s].stmts = 0
                /\ store' = store /\ nextId' = nextId]_vars

\* a PUT without credentials and without a title was answered 401
C6_Witness ==
    \E s \in Slots :
        /\ reqs[s].pc = "done" /\ reqs[s].kind = "PUT" /\ reqs[s].cred = "bad"
        /\ reqs[s].status = 401
        /\ Lacks(reqs[s].body)
        /\ reqs[s].id \in DOMAIN store

\* C7: POST /ai calls the extraction once; when the call fails the request
\* fails and the table is as before; a row enters the table only in the
\* insert of a POST /ai whose extraction gave a schema-conforming object,
\* and then exactly one row, owned by the caller, under an id no row has
\* or had.
C7_FailClosed ==
    [][/\ \A s \in Slots : (Returns(s) /\ reqs'[s].kind = "POST") =>
            LET r == reqs'[s]
            IN  /\ r.calls <= 1
                /\ reqs[s].pc = "extract" =>
                        (r.status = 500 /\ r.calls = 1 /\ r.stmts = 0)
                /\ r.status # 200 => store' = store
                /\ r.status = 200 =>
                        /\ Conforms(r.body) /\ r.calls = 1
                        /\ r.rows[1].id \notin DOMAIN store \cup deleted
                        /\ r.rows[1].userId = r.user
                        /\ store' = (r.rows[1].id :> r.rows[1]) @@ store
       /\ DOMAIN store' \ DOMAIN store # {} =>
            \E s \in Slots : /\ reqs[s].pc = "insert" /\ Returns(s)
                             /\ reqs'[s].status = 200]_vars

\* an extraction failed: the request ended 500 after one call and no
\* statement, beside a row stored earlier
C7_Witness ==
    \E s \in Slots :
        /\ reqs[s].pc = "done" /\ reqs[s].kind = "POST" /\ reqs[s].status = 500
        /\ reqs[s].calls = 1 /\ reqs[s].stmts = 0
        /\ store # <<>>

\* C4: a PUT with amount "12.50" and currency "USD" returns and stores the
\* amount text "12.50" and the currency "USD".
C4_AmountRoundTrip ==
    \A s \in Slots :
        (/\ reqs[s].pc = "done" /\ reqs[s].kind = "PUT" /\ reqs[s].status = 200
         /\ reqs[s].body.amount = Str(Txt1250)
         /\ reqs[s].body.currency = Str(TxtUSD)) =>
            /\ reqs[s].rows[1].amount = Txt1250
            /\ reqs[s].rows[1].currency = TxtUSD

\* C9: every stored row has type income or expense.
C9_TypeEnumerated == \A t \in Rows : t.type \in {TxtIncome, TxtExpense}

\* C10: an insert sets createdAt and updatedAt to its time; a successful
\* PUT sets updatedAt to the time of the update and leaves id, userId and
\* createdAt alone, and occurredAt too unless the payload supplies it.
C10_Bookkeeping ==
    [][\A s \in Slots : (Returns(s) /\ reqs'[s].status = 200) =>
        LET r == reqs'[s]
        IN  /\ r.kind = "POST" =>
                (r.rows[1].createdAt = r.rows[1].updatedAt /\ r.rows[1].createdAt <= now)
            /\ r.kind = "PUT" =>
                /\ store'[r.id].updatedAt = now
                /\ store'[r.id].id = store[r.id].id
                /\ store'[r.id].userId = store[r.id].userId
                /\ store'[r.id].createdAt = store[r.id].createdAt
                /\ r.body.occurredAt = Undefined =>
                        store'[r.id].occurredAt = store[r.id].occurredAt]_vars

Min(a, b) == IF a <= b THEN a ELSE b

\* the instant a date-time text denotes
Instant(y, mo, d, h) == ParseDate(IsoText(y, mo, d, h)).sec

\* the list request for the day 2024-03-10 with the given tzOffset
DayQuery(tz) == [date |-> Str(DateText(2024, 3, 10)), tzOffset |-> Str(tz)]

\* the response r lists the caller's rows with lo <= occurredAt < hi, the
\* latest 50 at most
ListsWindow(r, lo, hi) ==
    LET W == {t \in Rows : t.userId = r.user /\ lo <= t.occurredAt /\ t.occurredAt < hi}
    IN  /\ Returned(r) \subseteq W
        /\ Len(r.rows) = Min(Cardinality(W), 50)
        /\ Cardinality(Returned(r)) = Len(r.rows)
        /\ \A t \in W \ Returned(r), u \in Returned(r) : t.occurredAt <= u.occurredAt

\* C2 (amended): the list for date=2024-03-10 with tzOffset=-300 holds the
\* caller's rows with occurredAt in [2024-03-09T19:00:00Z,
\* 2024-03-10T19:00:00Z), the latest 50 at most; the interval
\* [2024-03-10T05:00:00Z, 2024-03-11T05:00:00Z) is that of tzOffset=300.
C2_DayWindow ==
    \A s \in Slots : (reqs[s].pc = "done" /\ reqs[s].kind = "GET" /\ reqs[s].status = 200) =>
        /\ reqs[s].query = DayQuery(<<"-", "3", "0", "0">>) =>
              ListsWindow(reqs[s], Instant(2024, 3, 9, 19), Instant(2024, 3, 10, 19))
        /\ reqs[s].query = DayQuery(<<"3", "0", "0">>) =>
              ListsWindow(reqs[s], Instant(2024, 3, 10, 5), Instant(2024, 3, 11, 5))

\* C2 as claimed: for tzOffset=-300 the list holds exactly the caller's
\* rows in [2024-03-10T05:00:00Z, 2024-03-11T05:00:00Z).
C2_ClaimedWindow ==
    \A s \in Slots :
        (/\ reqs[s].pc = "done" /\ reqs[s].kind = "GET" /\ reqs[s].status = 200
         /\ reqs[s].query = DayQuery(<<"-", "3", "0", "0">>)) =>
            Returned(reqs[s]) =
                {t \in Rows : /\ t.userId = reqs[s].user
                              /\ Instant(2024, 3, 10, 5) <= t.occurredAt
                              /\ t.occurredAt < Instant(2024, 3, 11, 5)}

\* the list for tzOffset=-300 shows a row of 2024-03-09T19:00:00Z and the
\* caller also has a row one second older, which it leaves out
C2_Witness ==
    \E s \in Slots :
        /\ reqs[s].pc = "done" /\ reqs[s].kind = "GET" /\ reqs[s].status = 200
        /\ reqs[s].query = DayQuery(<<"-", "3", "0", "0">>)
        /\ \E t \in Returned(reqs[s]) : t.occurredAt = Instant(2024, 3, 9, 19)
        /\ \E t \in Rows \ Returned(reqs[s]) :
              t.userId = reqs[s].user /\ t.occurredAt = Instant(2024, 3, 9, 19) - 1

\* the response r is ordered by occurredAt, latest first
Descending(r) ==
    \A k \in 1..(Len(r.rows) - 1) : r.rows[k].occurredAt >= r.rows[k + 1].occurredAt

\* C3 (amended): a list without date filter holds at most 50 rows, all of
\* the caller, latest first (occurredAt never increases from a row to the
\* next; equal values may follow each other), and no row of the caller
\* left out is later than a row listed.
C3_ListOrdered ==
    \A s \in Slots :
        (/\ reqs[s].pc = "done" /\ reqs[s].kind = "GET" /\ reqs[s].status = 200
         /\ reqs[s].query.date = Undefined) =>
            /\ Len(reqs[s].rows) <= 50
            /\ Descending(reqs[s])
            /\ ListsWindow(reqs[s], 0, Instant(2024, 3, 11, 5) + SecPerDay)

\* C3 as claimed: each listed row's occurredAt is strictly greater than
\* that of the row after it.
C3_StrictlyDescending ==
    \A s \in Slots :
        (/\ reqs[s].pc = "done" /\ reqs[s].kind = "GET" /\ reqs[s].status = 200
         /\ reqs[s].query.date = Undefined) =>
            \A k \in 1..(Len(reqs[s].rows) - 1) :
                reqs[s].rows[k].occurredAt > reqs[s].rows[k + 1].occurredAt

\* a list without date filter was cut at 50 rows of a caller who has
\* more, with two listed rows of the same occurredAt
C3_Witness ==
    \E s \in Slots :
        /\ reqs[s].pc = "done" /\ reqs[s].kind = "GET" /\ reqs[s].status = 200
        /\ reqs[s].query.date = Undefined
        /\ Len(reqs[s].rows) = 50
        /\ Cardinality({t \in Rows : t.userId = reqs[s].user}) > 50
        /\ \E k \in 1..49 : reqs[s].rows[k].occurredAt = reqs[s].rows[k + 1].occurredAt

====
